---- MODULE Spec2Model ----
(***************************************************************************)
(* Job lifecycle orchestrator of mcp-multi-agent-server-delegation:        *)
(* JobStore (store.ts), CallbackServer (callback-server.ts) and            *)
(* DelegationServer (server.ts).  Node runs every handler to its next      *)
(* `await` without interleaving, so one action is one such run-to-await    *)
(* segment; the awaited provisioner calls (createVM, startVM, destroyVM)   *)
(* resolve or reject in a later action.                                    *)
(***************************************************************************)
EXTENDS Integers, Sequences, FiniteSets, TLC

\* ---------------------------------------------------------------- bounds
MaxJobs == 1        \* jobs the callers submit
MaxTime == 3        \* the clock runs 1..MaxTime (seconds)
MaxTicks == 2       \* reconciliation ticks in flight at once
MaxCancels == 1     \* cancel calls of one job awaiting destroyVM at once

\* ------------------------------------------------------------- constants
MinTimeout == 1         \* schemas: timeout: z.number().min(1)
MaxTimeout == 86400     \* schemas: timeout: z.number().max(86400)
heartbeatThresholdSeconds == 120   \* config: heartbeatThresholdSeconds default

NoValue == "undefined"  \* a field that is absent / undefined
NoTime == 0             \* an unset Date
NoVm == 0               \* an unset vmId
NoTimeout == 0          \* manifest without timeout

JobIds == 1..(MaxJobs + 1)   \* ids a request may name: one is never issued
Handles == 1..(MaxJobs + 1)   \* handles the provisioner may issue

Terminal == {"success", "failed", "timeout"}

\* ---------------------------------------------------------------- inputs
\* Manifests offered to submit_job; task "" violates z.string().min(1).
Manifests ==
  [task: {"", "t"}, agentType: {"script"},
   timeout: {NoTimeout, MinTimeout}, lifecycle: {"ephemeral", "persistent"}]

\* Bodies POSTed to /callback/:jobId/complete; status NoValue is a body
\* without the required fields.
CompletionBodies ==
  [status: {"success", "failed"}, output: {"out"},
   error: {NoValue, "err"}, artifacts: {NoValue}]
  \cup {[status |-> "success", output |-> "out", error |-> NoValue, artifacts |-> "files"]}
  \cup {[status |-> NoValue, output |-> NoValue, error |-> NoValue, artifacts |-> NoValue]}

\* Bodies POSTed to /callback/:jobId/status; progress NoValue is a body
\* without the required field.
StatusBodies ==
  [progress: {"step"}, output: {NoValue, "", "partial"}]
  \cup {[progress |-> NoValue, output |-> NoValue]}

VARIABLES
  jobs,       \* JobStore.jobs: sequence of job records, index = job id
  now,        \* the wall clock read by new Date()
  prov,       \* per job: where its provisionJob continuation stands
  cancels,    \* per job: handleCancelJob calls awaiting destroyVM
  ticks,      \* cleanup-interval callbacks in flight
  live,       \* environments that exist at the provisioner
  last        \* outcome of the latest handler step (response, provisioner call made)

vars == <<jobs, now, prov, cancels, ticks, live, last>>

\* ------------------------------------------------------------- job store
NoCall == <<"none", 0>>

\* What one step reports: the operation, the job id it addressed, the
\* response it gave, and the provisioner call it issued (at most one,
\* since a handler suspends at the call's await).
Outcome(op, id, res, call) == [op |-> op, id |-> id, res |-> res, call |-> call]

\* Faulty variant of ResultReady: a timed-out job counts as complete.
ResultReadyAnyTerminal(job) == job.status \in {"success", "failed", "timeout"}

\* handleGetJobResult's "not complete" test.
ResultReady(job) == job.status = "success" \/ job.status = "failed"

\* Faulty variant of NewJob: the new record is stamped as already started.
NewJobStarted(id, manifest, t) ==
  [id |-> id, manifest |-> manifest, status |-> "pending", vmId |-> 0,
   createdAt |-> t, startedAt |-> t, completedAt |-> 0,
   output |-> "undefined", error |-> "undefined", artifacts |-> "undefined",
   lastHeartbeat |-> 0, progress |-> "undefined"]

\* JobStore.createJob: a fresh id (randomUUID, modelled as the next index),
\* status pending, createdAt = new Date(), every optional field absent.
NewJob(id, manifest, t) ==
  [id |-> id, manifest |-> manifest, status |-> "pending", vmId |-> NoVm,
   createdAt |-> t, startedAt |-> NoTime, completedAt |-> NoTime,
   output |-> NoValue, error |-> NoValue, artifacts |-> NoValue,
   lastHeartbeat |-> NoTime, progress |-> NoValue]

createJob(js, manifest, t) == Append(js, NewJob(Len(js) + 1, manifest, t))

\* JobStore.getJob: the id is known iff it indexes the table.
hasJob(js, id) == id \in 1..Len(js)

\* JobStore.getJob: the record, or undefined for an unknown id.
getJob(js, id) == IF hasJob(js, id) THEN js[id] ELSE NoValue

\* JobStore.updateJob's return value: false for an unknown id.
updateJobReturns(js, id) == hasJob(js, id)

\* JobStore.deleteJob: Map.delete removes the entry of that id, if any, and
\* returns whether there was one.
deleteJobReturns(js, id) == hasJob(js, id)

deleteJob(js, id) == SelectSeq(js, LAMBDA job : job.id # id)

\* Faulty variant of updateJob: the records share one state object, so an
\* update of a known job shows in every record (id, manifest and createdAt
\* are never in an update).
updateJobShared(js, id, updates) ==
  IF id \notin 1..Len(js) THEN js
  ELSE [i \in 1..Len(js) |->
          [f \in DOMAIN js[i] |->
             IF f \in DOMAIN updates THEN updates[f] ELSE js[i][f]]]

\* JobStore.updateJob: Object.assign(job, updates) copies every own key of
\* updates, a key holding undefined included; unknown id: no change.
updateJob(js, id, updates) ==
  IF ~hasJob(js, id) THEN js
  ELSE [js EXCEPT ![id] =
          [f \in DOMAIN js[id] |->
             IF f \in DOMAIN updates THEN updates[f] ELSE js[id][f]]]

\* Ids of the table in Map insertion order.
JobIdSeq(js) == [i \in 1..Len(js) |-> i]

\* JobStore.listJobs(status): the jobs with that status, in insertion order
\* (every job when status is NoValue).
listJobs(js, status) ==
  IF status # NoValue THEN SelectSeq(js, LAMBDA job : job.status = status) ELSE js

\* Faulty variant of IsTimedOut: elapsed time equal to the timeout already
\* counts as timed out.
IsTimedOutInclusive(job, t) ==
  /\ job.status = "running"
  /\ job.startedAt # 0
  /\ job.manifest.timeout # 0
  /\ t - job.startedAt >= job.manifest.timeout

\* JobStore.getTimedOutJobs(now): running, startedAt set, manifest timeout
\* set, and elapsed seconds strictly greater than the timeout.
IsTimedOut(job, t) ==
  /\ job.status = "running"
  /\ job.startedAt # NoTime
  /\ job.manifest.timeout # NoTimeout
  /\ t - job.startedAt > job.manifest.timeout

getTimedOutJobs(js, t) ==
  SelectSeq(JobIdSeq(js), LAMBDA i : IsTimedOut(js[i], t))

\* Faulty variant of IsStale: a running job that never reported counts as
\* silent since it started.
IsStaleSinceStart(job, threshold, t) ==
  /\ job.status = "running"
  /\ IF job.lastHeartbeat # 0 THEN t - job.lastHeartbeat > threshold
     ELSE job.startedAt # 0 /\ t - job.startedAt > threshold

\* JobStore.getStaleJobs(threshold, now): running, lastHeartbeat set, and
\* more than threshold seconds since that heartbeat.
IsStale(job, threshold, t) ==
  /\ job.status = "running"
  /\ job.lastHeartbeat # NoTime
  /\ t - job.lastHeartbeat > threshold

getStaleJobs(js, threshold, t) ==
  SelectSeq(JobIdSeq(js), LAMBDA i : IsStale(js[i], threshold, t))

\* ------------------------------------------------------------- schemas
\* JobManifestSchema.safeParse(...).success
JobManifestSchema(m) ==
  /\ m.task # ""
  /\ m.agentType \in {"claude", "script", "custom"}
  /\ m.timeout = NoTimeout \/ (m.timeout >= MinTimeout /\ m.timeout <= MaxTimeout)
  /\ m.lifecycle \in {NoValue, "ephemeral", "persistent"}

\* CallbackPayloadSchema.safeParse(...).success
CallbackPayloadSchema(b) ==
  /\ b.status \in {"success", "failed"}
  /\ b.output # NoValue

\* StatusUpdateSchema.safeParse(...).success
StatusUpdateSchema(b) == b.progress # NoValue

\* ------------------------------------------------------------------ init
IdleTick == [phase |-> "idle", queue |-> <<>>, h |-> NoVm]
ProvDone == [pc |-> "done", vm |-> NoVm]
\* n cancel calls of the job await destroyVM(h); a job only ever has one handle.
NoCancel == [n |-> 0, h |-> NoVm]

Init ==
  /\ jobs = <<>>
  /\ now = 1
  /\ prov = [j \in JobIds |-> ProvDone]
  /\ cancels = [j \in JobIds |-> NoCancel]
  /\ ticks = [t \in 1..MaxTicks |-> IdleTick]
  /\ live = {}
  /\ last = Outcome("init", 0, "", NoCall)

\* The clock moves between any two steps; it is no handler, so `last`
\* keeps the outcome of the latest handler step.
AdvanceTime ==
  /\ now < MaxTime
  /\ now' = now + 1
  /\ UNCHANGED <<jobs, prov, cancels, ticks, live, last>>

\* The clock after a silence longer than the heartbeat threshold: no
\* request, report or tick came in for that long.
LongSilence ==
  /\ now <= MaxTime
  /\ now' = now + heartbeatThresholdSeconds + 1
  /\ UNCHANGED <<jobs, prov, cancels, ticks, live, last>>

\* ------------------------------------------------- submit / provisioning
\* Faulty variant of ProvisionFailedUpdate: the rejection handler forgets completedAt.
ProvisionFailedNoStamp(t) == [status |-> "failed", error |-> "Provisioning failed"]

\* The update provisionJob's rejection handler applies (handleSubmitJob .catch).
ProvisionFailedUpdate(t) ==
  [status |-> "failed", error |-> "Provisioning failed", completedAt |-> t]

\* Faulty variant of RunningUpdate: startedAt is not stamped with the running status.
RunningUpdateNoStamp(h, t) == [status |-> "running", vmId |-> h]

\* Faulty variant of RunningUpdate: the handle is not stored with the running status.
RunningUpdateNoHandle(h, t) == [status |-> "running", startedAt |-> t]

\* The update provisionJob applies once createVM and startVM resolved.
RunningUpdate(h, t) == [status |-> "running", vmId |-> h, startedAt |-> t]

\* Faulty variant of SubmitInvalid: the error is reported but the early return
\* is missing, so the job is created and provisioned all the same.
SubmitInvalidStillCreates(m) ==
  /\ ~JobManifestSchema(m)
  /\ Len(jobs) < MaxJobs
  /\ LET id == Len(jobs) + 1
     IN /\ jobs' = updateJob(createJob(jobs, m, now), id, [status |-> "provisioning"])
        /\ prov' = [prov EXCEPT ![id] = [pc |-> "create", vm |-> 0]]
  /\ last' = [op |-> "submit_job", id |-> 0, res |-> "Invalid manifest", call |-> <<"none", 0>>]
  /\ UNCHANGED <<now, cancels, ticks, live>>

\* handleSubmitJob with an invalid manifest: error result, nothing else.
SubmitInvalid(m) ==
  /\ ~JobManifestSchema(m)
  /\ last' = Outcome("submit_job", 0, "Invalid manifest", NoCall)
  /\ UNCHANGED <<jobs, now, prov, cancels, ticks, live>>

\* Faulty variant of SubmitJob: submit awaits provisionJob before it returns the id.
SubmitJobAwaited(m) ==
  /\ JobManifestSchema(m)
  /\ LET id == Len(jobs) + 1
         created == createJob(jobs, m, now)
     IN /\ jobs' = updateJob(created, id, [status |-> "running", vmId |-> 1, startedAt |-> now])
        /\ prov' = [prov EXCEPT ![id] = [pc |-> "done", vm |-> NoVm]]
        /\ last' = [op |-> "submit_job", id |-> id, res |-> "job_id", call |-> <<"none", 0>>]
  /\ live' = live \cup {1}
  /\ UNCHANGED <<now, cancels, ticks>>

\* Faulty variant of SubmitJob: provisionJob starts on a later turn of the
\* event loop, so the id is returned with the job still pending.
SubmitJobDeferred(m) ==
  /\ m.task # "" /\ m.agentType \in {"claude", "custom", "script"}
  /\ LET id == Len(jobs) + 1
     IN /\ jobs' = createJob(jobs, m, now)
        /\ prov' = [prov EXCEPT ![id] = [pc |-> "create", vm |-> 0]]
        /\ last' = [op |-> "submit_job", id |-> id, res |-> "job_id",
                    call |-> <<"createVM", id>>]
  /\ UNCHANGED <<now, cancels, ticks, live>>

\* handleSubmitJob with a valid manifest: createJob, then provisionJob runs
\* synchronously up to `await createVM` (status provisioning), then the
\* job id is returned.
SubmitJob(m) ==
  /\ JobManifestSchema(m)
  /\ LET id == Len(jobs) + 1
         created == createJob(jobs, m, now)
     IN /\ jobs' = updateJob(created, id, [status |-> "provisioning"])
        /\ prov' = [prov EXCEPT ![id] = [pc |-> "create", vm |-> NoVm]]
        /\ last' = Outcome("submit_job", id, "job_id", <<"createVM", id>>)
  /\ UNCHANGED <<now, cancels, ticks, live>>

\* The provisioner hands out the lowest handle no live environment uses
\* (a destroyed environment's handle may be issued again).
FreshHandle(h) == h \in Handles \ live /\ \A k \in Handles \ live : h <= k

\* createVM resolved with handle h: provisionJob goes on to `await startVM`.
CreateVMOk(j, h) ==
  /\ prov[j].pc = "create"
  /\ FreshHandle(h)
  /\ live' = live \cup {h}
  /\ prov' = [prov EXCEPT ![j] = [pc |-> "start", vm |-> h]]
  /\ last' = Outcome("provision", j, "created", <<"startVM", h>>)
  /\ UNCHANGED <<jobs, now, cancels, ticks>>

\* createVM rejected: provisionJob rethrows, the .catch handler marks failed.
CreateVMFail(j) ==
  /\ prov[j].pc = "create"
  /\ jobs' = updateJob(jobs, j, ProvisionFailedUpdate(now))
  /\ prov' = [prov EXCEPT ![j] = ProvDone]
  /\ last' = Outcome("provision", j, "failed", NoCall)
  /\ UNCHANGED <<now, cancels, ticks, live>>

\* startVM resolved: the job becomes running with the handle and startedAt.
StartVMOk(j) ==
  /\ prov[j].pc = "start"
  /\ jobs' = updateJob(jobs, j, RunningUpdate(prov[j].vm, now))
  /\ prov' = [prov EXCEPT ![j] = ProvDone]
  /\ last' = Outcome("provision", j, "running", NoCall)
  /\ UNCHANGED <<now, cancels, ticks, live>>

\* startVM rejected: same failure path; the created environment stays.
StartVMFail(j) ==
  /\ prov[j].pc = "start"
  /\ jobs' = updateJob(jobs, j, ProvisionFailedUpdate(now))
  /\ prov' = [prov EXCEPT ![j] = ProvDone]
  /\ last' = Outcome("provision", j, "failed", NoCall)
  /\ UNCHANGED <<now, cancels, ticks, live>>

\* -------------------------------------------------------------- callbacks
\* Faulty variant of CompleteUpdate: every report is recorded as a success.
CompleteUpdateAlwaysSuccess(b, t) ==
  [status |-> "success", output |-> b.output, error |-> b.error,
   artifacts |-> b.artifacts, completedAt |-> t]

\* The update POST /callback/:jobId/complete applies for a parsed body.
CompleteUpdate(b, t) ==
  [status |-> IF b.status = "success" THEN "success" ELSE "failed",
   output |-> b.output, error |-> b.error, artifacts |-> b.artifacts,
   completedAt |-> t]

\* Faulty variant of StatusUpdate: a progress report also marks the job running.
StatusUpdateMarksRunning(b, t) ==
  IF b.output \notin {"undefined", ""}
  THEN [status |-> "running", progress |-> b.progress, output |-> b.output, lastHeartbeat |-> t]
  ELSE [status |-> "running", progress |-> b.progress, lastHeartbeat |-> t]

\* The update POST /callback/:jobId/status applies: output only when truthy.
StatusUpdate(b, t) ==
  IF b.output \notin {NoValue, ""}
  THEN [progress |-> b.progress, output |-> b.output, lastHeartbeat |-> t]
  ELSE [progress |-> b.progress, lastHeartbeat |-> t]

\* Faulty variant of CallbackComplete: the body is validated before the job is looked up.
CallbackCompleteValidatesFirst(id, b) ==
  /\ IF ~(b.status \in {"success", "failed"} /\ b.output # "undefined")
     THEN /\ last' = [op |-> "complete", id |-> id, res |-> "400", call |-> <<"none", 0>>]
          /\ UNCHANGED jobs
     ELSE IF id \notin 1..Len(jobs)
     THEN /\ last' = [op |-> "complete", id |-> id, res |-> "404", call |-> <<"none", 0>>]
          /\ UNCHANGED jobs
     ELSE /\ jobs' = [jobs EXCEPT ![id] =
                        [@ EXCEPT !.status = b.status, !.output = b.output, !.error = b.error,
                                  !.artifacts = b.artifacts, !.completedAt = now]]
          /\ last' = [op |-> "complete", id |-> id, res |-> "200", call |-> <<"none", 0>>]
  /\ UNCHANGED <<now, prov, cancels, ticks, live>>

\* POST /callback/:jobId/complete
CallbackComplete(id, b) ==
  /\ IF ~hasJob(jobs, id)
     THEN /\ last' = Outcome("complete", id, "404", NoCall)
          /\ UNCHANGED jobs
     ELSE IF ~CallbackPayloadSchema(b)
     THEN /\ last' = Outcome("complete", id, "400", NoCall)
          /\ UNCHANGED jobs
     ELSE /\ jobs' = updateJob(jobs, id, CompleteUpdate(b, now))
          /\ last' = Outcome("complete", id, "200", NoCall)
  /\ UNCHANGED <<now, prov, cancels, ticks, live>>

\* Faulty variant of CallbackStatus: the heartbeat is stamped before the body is validated.
CallbackStatusStampsFirst(id, b) ==
  /\ IF id \notin 1..Len(jobs)
     THEN /\ last' = [op |-> "status", id |-> id, res |-> "404", call |-> <<"none", 0>>]
          /\ UNCHANGED jobs
     ELSE IF b.progress = "undefined"
     THEN /\ last' = [op |-> "status", id |-> id, res |-> "400", call |-> <<"none", 0>>]
          /\ jobs' = [jobs EXCEPT ![id].lastHeartbeat = now]
     ELSE /\ jobs' = [jobs EXCEPT ![id] =
                        [@ EXCEPT !.progress = b.progress, !.lastHeartbeat = now,
                                  !.output = IF b.output \notin {"undefined", ""} THEN b.output ELSE @]]
          /\ last' = [op |-> "status", id |-> id, res |-> "200", call |-> <<"none", 0>>]
  /\ UNCHANGED <<now, prov, cancels, ticks, live>>

\* POST /callback/:jobId/status
CallbackStatus(id, b) ==
  /\ IF ~hasJob(jobs, id)
     THEN /\ last' = Outcome("status", id, "404", NoCall)
          /\ UNCHANGED jobs
     ELSE IF ~StatusUpdateSchema(b)
     THEN /\ last' = Outcome("status", id, "400", NoCall)
          /\ UNCHANGED jobs
     ELSE /\ jobs' = updateJob(jobs, id, StatusUpdate(b, now))
          /\ last' = Outcome("status", id, "200", NoCall)
  /\ UNCHANGED <<now, prov, cancels, ticks, live>>

\* Faulty variant of CallbackHeartbeat: a heartbeat also clears the progress text.
CallbackHeartbeatClearsProgress(id) ==
  /\ IF id \notin 1..Len(jobs)
     THEN /\ last' = [op |-> "heartbeat", id |-> id, res |-> "404", call |-> <<"none", 0>>]
          /\ UNCHANGED jobs
     ELSE /\ jobs' = [jobs EXCEPT ![id].lastHeartbeat = now, ![id].progress = "undefined"]
          /\ last' = [op |-> "heartbeat", id |-> id, res |-> "200", call |-> <<"none", 0>>]
  /\ UNCHANGED <<now, prov, cancels, ticks, live>>

\* POST /callback/:jobId/heartbeat
CallbackHeartbeat(id) ==
  /\ IF ~hasJob(jobs, id)
     THEN /\ last' = Outcome("heartbeat", id, "404", NoCall)
          /\ UNCHANGED jobs
     ELSE /\ jobs' = updateJob(jobs, id, [lastHeartbeat |-> now])
          /\ last' = Outcome("heartbeat", id, "200", NoCall)
  /\ UNCHANGED <<now, prov, cancels, ticks, live>>

\* ---------------------------------------------------------------- queries
\* handleGetJobStatus
GetJobStatus(id) ==
  /\ last' = IF ~hasJob(jobs, id)
             THEN Outcome("get_job_status", id, "Job not found", NoCall)
             ELSE Outcome("get_job_status", id, "snapshot", NoCall)
  /\ UNCHANGED <<jobs, now, prov, cancels, ticks, live>>

\* handleGetJobResult
GetJobResult(id) ==
  /\ last' = IF ~hasJob(jobs, id)
             THEN Outcome("get_job_result", id, "Job not found", NoCall)
             ELSE IF ~ResultReady(jobs[id])
             THEN Outcome("get_job_result", id, "Job not complete", NoCall)
             ELSE Outcome("get_job_result", id, "result", NoCall)
  /\ UNCHANGED <<jobs, now, prov, cancels, ticks, live>>

\* ----------------------------------------------------------------- cancel
\* Faulty variant of CancelUpdate: the update also carries createdAt.
CancelUpdateRestamps(t) ==
  [status |-> "failed", error |-> "Cancelled by user", completedAt |-> t, createdAt |-> t]

\* The update handleCancelJob applies after its destroy attempt.
CancelUpdate(t) ==
  [status |-> "failed", error |-> "Cancelled by user", completedAt |-> t]

\* handleCancelJob's "already completed" test.
CancelRejects(job) == job.status = "success" \/ job.status = "failed"

\* Faulty variant of CancelJob: cancelling an id the store does not hold is
\* reported as a successful cancel.
CancelJobLenient(id) ==
  /\ IF id \notin 1..Len(jobs)
     THEN /\ last' = [op |-> "cancel_job", id |-> id, res |-> "cancelled", call |-> <<"none", 0>>]
          /\ UNCHANGED <<jobs, cancels>>
     ELSE IF jobs[id].status = "success" \/ jobs[id].status = "failed"
     THEN /\ last' = [op |-> "cancel_job", id |-> id, res |-> "Job already completed",
                      call |-> <<"none", 0>>]
          /\ UNCHANGED <<jobs, cancels>>
     ELSE IF jobs[id].vmId # 0
     THEN /\ cancels[id].n < MaxCancels
          /\ cancels' = [cancels EXCEPT ![id] = [n |-> @.n + 1, h |-> jobs[id].vmId]]
          /\ last' = [op |-> "cancel_job", id |-> id, res |-> "awaiting",
                      call |-> <<"destroyVM", jobs[id].vmId>>]
          /\ UNCHANGED jobs
     ELSE /\ jobs' = [jobs EXCEPT ![id] =
                        [@ EXCEPT !.status = "failed", !.error = "Cancelled by user",
                                  !.completedAt = now]]
          /\ last' = [op |-> "cancel_job", id |-> id, res |-> "cancelled", call |-> <<"none", 0>>]
          /\ UNCHANGED cancels
  /\ UNCHANGED <<now, prov, ticks, live>>

\* handleCancelJob up to its first await (or to its return when there is none).
CancelJob(id) ==
  /\ IF ~hasJob(jobs, id)
     THEN /\ last' = Outcome("cancel_job", id, "Job not found", NoCall)
          /\ UNCHANGED <<jobs, cancels>>
     ELSE IF CancelRejects(jobs[id])
     THEN /\ last' = Outcome("cancel_job", id, "Job already completed", NoCall)
          /\ UNCHANGED <<jobs, cancels>>
     ELSE IF jobs[id].vmId # NoVm
     THEN /\ cancels[id].n < MaxCancels
          /\ cancels' = [cancels EXCEPT ![id] = [n |-> @.n + 1, h |-> jobs[id].vmId]]
          /\ last' = Outcome("cancel_job", id, "awaiting", <<"destroyVM", jobs[id].vmId>>)
          /\ UNCHANGED jobs
     ELSE /\ jobs' = updateJob(jobs, id, CancelUpdate(now))
          /\ last' = Outcome("cancel_job", id, "cancelled", NoCall)
          /\ UNCHANGED cancels
  /\ UNCHANGED <<now, prov, ticks, live>>

\* destroyVM(h) settles at the provisioner: resolved removes the
\* environment, rejected leaves everything as it was.
Destroyed(h, ok) == IF ok THEN live \ {h} ELSE live

\* Faulty variant of CancelDestroyReturn: a rejected destroyVM aborts the cancel.
CancelDestroyReturnStrict(id, ok) ==
  /\ cancels[id].n > 0
  /\ cancels' = [cancels EXCEPT ![id] =
                   IF @.n = 1 THEN [n |-> 0, h |-> NoVm] ELSE [n |-> @.n - 1, h |-> @.h]]
  /\ live' = Destroyed(cancels[id].h, ok)
  /\ jobs' = IF ok THEN updateJob(jobs, id, CancelUpdate(now)) ELSE jobs
  /\ last' = [op |-> "cancel_job", id |-> id,
              res |-> IF ok THEN "cancelled" ELSE "destroy failed", call |-> <<"none", 0>>]
  /\ UNCHANGED <<now, prov, ticks>>

\* handleCancelJob after `await destroyVM`: the rejection is swallowed, the
\* job is marked failed and {cancelled: true} is returned.
CancelDestroyReturn(id, ok) ==
  /\ cancels[id].n > 0
  /\ cancels' = [cancels EXCEPT ![id] =
                   IF @.n = 1 THEN NoCancel ELSE [n |-> @.n - 1, h |-> @.h]]
  /\ live' = Destroyed(cancels[id].h, ok)
  /\ jobs' = updateJob(jobs, id, CancelUpdate(now))
  /\ last' = Outcome("cancel_job", id, "cancelled", NoCall)
  /\ UNCHANGED <<now, prov, ticks>>

\* --------------------------------------------------- reconciliation loop
\* Faulty variant of TimeoutUpdate: a timed-out job is marked failed.
TimeoutUpdateMarksFailed(t) ==
  [status |-> "failed", error |-> "Job exceeded timeout", completedAt |-> t]

\* The update the timed-out pass applies after its destroy attempt.
TimeoutUpdate(t) ==
  [status |-> "timeout", error |-> "Job exceeded timeout", completedAt |-> t]

\* Faulty variant of CleanupEligible: the lifecycle policy is not looked at.
CleanupEligibleAnyLifecycle(job) ==
  /\ job.status \in {"success", "failed", "timeout"}
  /\ job.vmId # 0

\* The cleanup pass's filter over listJobs().
CleanupEligible(job) ==
  /\ job.status \in {"success", "failed", "timeout"}
  /\ job.vmId # NoVm
  /\ job.manifest.lifecycle # "persistent"

completedJobs(js) == SelectSeq(JobIdSeq(js), LAMBDA i : CleanupEligible(js[i]))

Suspended(js, phase, q) ==
  [jobs |-> js, tick |-> [phase |-> phase, queue |-> q, h |-> js[Head(q)].vmId]]

\* The cleanup pass from the head of q up to its next `await destroyVM`;
\* a job whose vmId is gone by now is skipped.
RECURSIVE CleanupLoop(_, _)
CleanupLoop(js, q) ==
  IF q = <<>> THEN [jobs |-> js, tick |-> IdleTick]
  ELSE IF js[Head(q)].vmId # NoVm THEN Suspended(js, "cleanup", q)
  ELSE CleanupLoop(js, Tail(q))

\* The timed-out pass from the head of q up to its next `await destroyVM`;
\* a job without vmId is marked timeout at once.  When the list is
\* exhausted the cleanup pass takes its snapshot and starts.
RECURSIVE TimedOutLoop(_, _, _)
TimedOutLoop(js, q, t) ==
  IF q = <<>> THEN CleanupLoop(js, completedJobs(js))
  ELSE IF js[Head(q)].vmId # NoVm THEN Suspended(js, "timeout", q)
  ELSE TimedOutLoop(updateJob(js, Head(q), TimeoutUpdate(t)), Tail(q), t)

TickCall(tick) == IF tick.phase = "idle" THEN NoCall ELSE <<"destroyVM", tick.h>>

\* setInterval fires the callback: getTimedOutJobs, then the loop to its
\* first await.
TickFire(k) ==
  /\ ticks[k].phase = "idle"
  /\ \A i \in 1..(k - 1) : ticks[i].phase # "idle"
  /\ LET r == TimedOutLoop(jobs, getTimedOutJobs(jobs, now), now)
     IN /\ jobs' = r.jobs
        /\ ticks' = [ticks EXCEPT ![k] = r.tick]
        /\ last' = Outcome("tick", 0, "fired", TickCall(r.tick))
  /\ UNCHANGED <<now, prov, cancels, live>>

\* Faulty variant of TimedOutDestroyReturn: a rejected destroyVM is not
\* swallowed, the callback ends there and the job is left as it was.
TimedOutDestroyReturnStrict(k, ok) ==
  /\ ticks[k].phase = "timeout"
  /\ live' = IF ok THEN live \ {ticks[k].h} ELSE live
  /\ LET j == Head(ticks[k].queue)
         r == IF ok
              THEN TimedOutLoop(updateJob(jobs, j, TimeoutUpdate(now)),
                                Tail(ticks[k].queue), now)
              ELSE [jobs |-> jobs, tick |-> [phase |-> "idle", queue |-> <<>>, h |-> 0]]
     IN /\ jobs' = r.jobs
        /\ ticks' = [ticks EXCEPT ![k] = r.tick]
        /\ last' = [op |-> "tick", id |-> j, res |-> IF ok THEN "timeout" ELSE "aborted",
                    call |-> TickCall(r.tick)]
  /\ UNCHANGED <<now, prov, cancels>>

\* The timed-out pass resumes after `await destroyVM` (rejection swallowed):
\* the awaited job is marked timeout, then the loop goes on.
TimedOutDestroyReturn(k, ok) ==
  /\ ticks[k].phase = "timeout"
  /\ live' = Destroyed(ticks[k].h, ok)
  /\ LET j == Head(ticks[k].queue)
         r == TimedOutLoop(updateJob(jobs, j, TimeoutUpdate(now)),
                           Tail(ticks[k].queue), now)
     IN /\ jobs' = r.jobs
        /\ ticks' = [ticks EXCEPT ![k] = r.tick]
        /\ last' = Outcome("tick", j, "timeout", TickCall(r.tick))
  /\ UNCHANGED <<now, prov, cancels>>

\* Faulty variant of CleanupDestroyReturn: the try/catch wraps the whole
\* loop, so a rejected destroyVM ends the cleanup pass.
CleanupDestroyReturnAborts(k, ok) ==
  /\ ticks[k].phase = "cleanup"
  /\ live' = IF ok THEN live \ {ticks[k].h} ELSE live
  /\ LET j == Head(ticks[k].queue)
         r == IF ok
              THEN CleanupLoop(updateJob(jobs, j, [vmId |-> 0]), Tail(ticks[k].queue))
              ELSE [jobs |-> jobs, tick |-> [phase |-> "idle", queue |-> <<>>, h |-> 0]]
     IN /\ jobs' = r.jobs
        /\ ticks' = [ticks EXCEPT ![k] = r.tick]
        /\ last' = [op |-> "tick", id |-> j, res |-> IF ok THEN "cleaned" ELSE "kept",
                    call |-> TickCall(r.tick)]
  /\ UNCHANGED <<now, prov, cancels>>

\* Faulty variant of CleanupDestroyReturn: the handle is not cleared after a
\* resolved destroyVM.
CleanupDestroyReturnKeepsHandle(k, ok) ==
  /\ ticks[k].phase = "cleanup"
  /\ live' = IF ok THEN live \ {ticks[k].h} ELSE live
  /\ LET j == Head(ticks[k].queue)
         r == CleanupLoop(jobs, Tail(ticks[k].queue))
     IN /\ jobs' = r.jobs
        /\ ticks' = [ticks EXCEPT ![k] = r.tick]
        /\ last' = [op |-> "tick", id |-> j, res |-> IF ok THEN "cleaned" ELSE "kept",
                    call |-> TickCall(r.tick)]
  /\ UNCHANGED <<now, prov, cancels>>

\* The cleanup pass resumes after `await destroyVM`: resolved clears the
\* vmId, rejected leaves it for the next interval.
CleanupDestroyReturn(k, ok) ==
  /\ ticks[k].phase = "cleanup"
  /\ live' = Destroyed(ticks[k].h, ok)
  /\ LET j == Head(ticks[k].queue)
         r == CleanupLoop(IF ok THEN updateJob(jobs, j, [vmId |-> NoVm]) ELSE jobs,
                          Tail(ticks[k].queue))
     IN /\ jobs' = r.jobs
        /\ ticks' = [ticks EXCEPT ![k] = r.tick]
        /\ last' = Outcome("tick", j, IF ok THEN "cleaned" ELSE "kept", TickCall(r.tick))
  /\ UNCHANGED <<now, prov, cancels>>

\* ------------------------------------------------------------------ next
Next ==
  \/ AdvanceTime
  \/ \E m \in Manifests : SubmitInvalid(m)
  \/ Len(jobs) < MaxJobs /\ \E m \in Manifests : SubmitJob(m)
  \/ \E j \in JobIds, h \in Handles : CreateVMOk(j, h)
  \/ \E j \in JobIds : CreateVMFail(j)
  \/ \E j \in JobIds : StartVMOk(j)
  \/ \E j \in JobIds : StartVMFail(j)
  \/ \E id \in JobIds, b \in CompletionBodies : CallbackComplete(id, b)
  \/ \E id \in JobIds, b \in StatusBodies : CallbackStatus(id, b)
  \/ \E id \in JobIds : CallbackHeartbeat(id)
  \/ \E id \in JobIds : GetJobStatus(id)
  \/ \E id \in JobIds : GetJobResult(id)
  \/ \E id \in JobIds : CancelJob(id)
  \/ \E id \in JobIds, ok \in BOOLEAN : CancelDestroyReturn(id, ok)
  \/ \E k \in 1..MaxTicks : TickFire(k)
  \/ \E k \in 1..MaxTicks, ok \in BOOLEAN : TimedOutDestroyReturn(k, ok)
  \/ \E k \in 1..MaxTicks, ok \in BOOLEAN : CleanupDestroyReturn(k, ok)

Spec == Init /\ [][Next]_vars

\* The lifecycle handlers alone: every handler but the progress and heartbeat
\* reports, which write only progress, output and lastHeartbeat, fields no
\* handler reads to decide anything.
NextLifecycle ==
  \/ AdvanceTime
  \/ \E m \in Manifests : SubmitInvalid(m)
  \/ Len(jobs) < MaxJobs /\ \E m \in Manifests : SubmitJob(m)
  \/ \E j \in JobIds, h \in Handles : CreateVMOk(j, h)
  \/ \E j \in JobIds : CreateVMFail(j)
  \/ \E j \in JobIds : StartVMOk(j)
  \/ \E j \in JobIds : StartVMFail(j)
  \/ \E id \in JobIds, b \in CompletionBodies : CallbackComplete(id, b)
  \/ \E id \in JobIds : GetJobStatus(id)
  \/ \E id \in JobIds : GetJobResult(id)
  \/ \E id \in JobIds : CancelJob(id)
  \/ \E id \in JobIds, ok \in BOOLEAN : CancelDestroyReturn(id, ok)
  \/ \E k \in 1..MaxTicks : TickFire(k)
  \/ \E k \in 1..MaxTicks, ok \in BOOLEAN : TimedOutDestroyReturn(k, ok)
  \/ \E k \in 1..MaxTicks, ok \in BOOLEAN : CleanupDestroyReturn(k, ok)

SpecLifecycle == Init /\ [][NextLifecycle]_vars

\* The provisioner answers every call with success and nobody cancels or
\* reports: the environment C7 speaks of.  An awaited call settles, so the
\* continuation of provisionJob is weakly fair.
NextProvision ==
  \/ AdvanceTime
  \/ \E m \in Manifests : SubmitInvalid(m)
  \/ Len(jobs) < MaxJobs /\ \E m \in Manifests : SubmitJob(m)
  \/ \E j \in JobIds, h \in Handles : CreateVMOk(j, h)
  \/ \E j \in JobIds : StartVMOk(j)
  \/ \E id \in JobIds : GetJobStatus(id)
  \/ \E id \in JobIds : GetJobResult(id)
  \/ \E k \in 1..MaxTicks : TickFire(k)
  \/ \E k \in 1..MaxTicks, ok \in BOOLEAN : TimedOutDestroyReturn(k, ok)
  \/ \E k \in 1..MaxTicks, ok \in BOOLEAN : CleanupDestroyReturn(k, ok)

SpecProvision ==
  /\ Init
  /\ [][NextProvision]_vars
  /\ \A j \in JobIds : WF_vars(\E h \in Handles : CreateVMOk(j, h))
  /\ \A j \in JobIds : WF_vars(StartVMOk(j))

\* The reconciliation loop over jobs nobody else ends: the provisioner
\* starts every job, no report and no cancel arrives.  setInterval keeps
\* firing the callback and an awaited destroyVM settles (either way), so
\* the tick and its continuations are weakly fair.
SpecTimeout ==
  /\ Init
  /\ [][NextProvision]_vars
  /\ WF_vars(\E k \in 1..MaxTicks : TickFire(k))
  /\ \A k \in 1..MaxTicks : WF_vars(\E ok \in BOOLEAN : TimedOutDestroyReturn(k, ok))
  /\ \A k \in 1..MaxTicks : WF_vars(\E ok \in BOOLEAN : CleanupDestroyReturn(k, ok))

\* The lifecycle handlers with a reconciliation loop that keeps running:
\* setInterval keeps firing the callback, an awaited destroyVM settles, and
\* a destroyVM of the cleanup pass that is attempted again and again
\* eventually resolves.
SpecReconcile ==
  /\ Init
  /\ [][NextLifecycle]_vars
  /\ WF_vars(\E k \in 1..MaxTicks : TickFire(k))
  /\ \A k \in 1..MaxTicks : WF_vars(\E ok \in BOOLEAN : TimedOutDestroyReturn(k, ok))
  /\ \A k \in 1..MaxTicks : WF_vars(\E ok \in BOOLEAN : CleanupDestroyReturn(k, ok))
  /\ SF_vars(\E k \in 1..MaxTicks : CleanupDestroyReturn(k, TRUE))

\* Environments that start, send heartbeats and may then fall silent, with
\* a reconciliation loop that keeps running (weakly fair ticks and
\* continuations).
NextStale ==
  \/ AdvanceTime
  \/ LongSilence
  \/ Len(jobs) < MaxJobs /\ \E m \in Manifests : SubmitJob(m)
  \/ \E j \in JobIds, h \in Handles : CreateVMOk(j, h)
  \/ \E j \in JobIds : StartVMOk(j)
  \/ \E id \in JobIds : CallbackHeartbeat(id)
  \/ \E k \in 1..MaxTicks : TickFire(k)
  \/ \E k \in 1..MaxTicks, ok \in BOOLEAN : TimedOutDestroyReturn(k, ok)
  \/ \E k \in 1..MaxTicks, ok \in BOOLEAN : CleanupDestroyReturn(k, ok)

SpecStale ==
  /\ Init
  /\ [][NextStale]_vars
  /\ WF_vars(\E k \in 1..MaxTicks : TickFire(k))
  /\ \A k \in 1..MaxTicks : WF_vars(\E ok \in BOOLEAN : TimedOutDestroyReturn(k, ok))
  /\ \A k \in 1..MaxTicks : WF_vars(\E ok \in BOOLEAN : CleanupDestroyReturn(k, ok))

\* Two submissions side by side: the provisioner starts every job, no
\* report and no cancel arrives, jobs end by timeout, and the
\* reconciliation loop keeps running (weakly fair ticks and continuations).
NextPair ==
  \/ AdvanceTime
  \/ Len(jobs) < MaxJobs + 1 /\ \E m \in Manifests : SubmitJob(m)
  \/ \E j \in JobIds, h \in Handles : CreateVMOk(j, h)
  \/ \E j \in JobIds : StartVMOk(j)
  \/ \E k \in 1..MaxTicks : TickFire(k)
  \/ \E k \in 1..MaxTicks, ok \in BOOLEAN : TimedOutDestroyReturn(k, ok)
  \/ \E k \in 1..MaxTicks, ok \in BOOLEAN : CleanupDestroyReturn(k, ok)

SpecPair ==
  /\ Init
  /\ [][NextPair]_vars
  /\ WF_vars(\E k \in 1..MaxTicks : TickFire(k))
  /\ \A k \in 1..MaxTicks : WF_vars(\E ok \in BOOLEAN : TimedOutDestroyReturn(k, ok))
  /\ \A k \in 1..MaxTicks : WF_vars(\E ok \in BOOLEAN : CleanupDestroyReturn(k, ok))

\* Environments that the provisioner always starts and that report: no
\* provisioning failure and no cancel, so result fields are written by the
\* callback routes and the timed-out pass only.
NextReports ==
  \/ AdvanceTime
  \/ Len(jobs) < MaxJobs /\ \E m \in Manifests : SubmitJob(m)
  \/ \E j \in JobIds, h \in Handles : CreateVMOk(j, h)
  \/ \E j \in JobIds : StartVMOk(j)
  \/ \E id \in JobIds, b \in CompletionBodies : CallbackComplete(id, b)
  \/ \E id \in JobIds, b \in StatusBodies : CallbackStatus(id, b)
  \/ \E id \in JobIds : CallbackHeartbeat(id)
  \/ \E k \in 1..MaxTicks : TickFire(k)
  \/ \E k \in 1..MaxTicks, ok \in BOOLEAN : TimedOutDestroyReturn(k, ok)
  \/ \E k \in 1..MaxTicks, ok \in BOOLEAN : CleanupDestroyReturn(k, ok)

SpecReports == Init /\ [][NextReports]_vars

\* The callback server against the job lifecycle: submissions, provisioning,
\* the three callback routes and the reconciliation loop, without the
\* callers' queries and cancels.
NextCallbacks ==
  \/ AdvanceTime
  \/ Len(jobs) < MaxJobs /\ \E m \in Manifests : SubmitJob(m)
  \/ \E j \in JobIds, h \in Handles : CreateVMOk(j, h)
  \/ \E j \in JobIds : CreateVMFail(j)
  \/ \E j \in JobIds : StartVMOk(j)
  \/ \E j \in JobIds : StartVMFail(j)
  \/ \E id \in JobIds, b \in CompletionBodies : CallbackComplete(id, b)
  \/ \E id \in JobIds, b \in StatusBodies : CallbackStatus(id, b)
  \/ \E id \in JobIds : CallbackHeartbeat(id)
  \/ \E k \in 1..MaxTicks : TickFire(k)
  \/ \E k \in 1..MaxTicks, ok \in BOOLEAN : TimedOutDestroyReturn(k, ok)
  \/ \E k \in 1..MaxTicks, ok \in BOOLEAN : CleanupDestroyReturn(k, ok)

SpecCallbacks == Init /\ [][NextCallbacks]_vars

\* ---------------------------------------------------------- ProxmoxClient
\* One callTool request to the Proxmox admin server, with how it settled.
Remote(tool, arg, ok) == [tool |-> tool, arg |-> arg, ok |-> ok]

\* Every method starts with `if (!this.client) throw`.
NotConnected == [calls |-> <<>>, res |-> "Client not connected"]

\* ProxmoxClient.createVM: one proxmox_vm_create request; reply is "vm" (a
\* text content with the vmid), "malformed" (resolved, but not such a
\* content) or "error" (the request rejects).
createVM(connected, jobId, reply) ==
  IF ~connected THEN NotConnected
  ELSE [calls |-> <<Remote("proxmox_vm_create", jobId, reply # "error")>>,
        res |-> CASE reply = "vm" -> "created"
                  [] reply = "malformed" -> "Unexpected response format"
                  [] OTHER -> "rejected"]

\* ProxmoxClient.startVM: one proxmox_vm_start request.
startVM(connected, vmId, ok) ==
  IF ~connected THEN NotConnected
  ELSE [calls |-> <<Remote("proxmox_vm_start", vmId, ok)>>,
        res |-> IF ok THEN "resolved" ELSE "rejected"]

\* Faulty variant of destroyVM: the stop request is not guarded, so its
\* rejection ends the method before destroy is requested.
destroyVMStopUnguarded(connected, vmId, stopOk, destroyOk) ==
  IF ~connected THEN [calls |-> <<>>, res |-> "Client not connected"]
  ELSE IF ~stopOk
  THEN [calls |-> <<[tool |-> "proxmox_vm_stop", arg |-> vmId, ok |-> FALSE]>>,
        res |-> "rejected"]
  ELSE [calls |-> <<[tool |-> "proxmox_vm_stop", arg |-> vmId, ok |-> TRUE],
                    [tool |-> "proxmox_vm_destroy", arg |-> vmId, ok |-> destroyOk]>>,
        res |-> IF destroyOk THEN "resolved" ELSE "rejected"]

\* ProxmoxClient.destroyVM: proxmox_vm_stop inside try/catch, then
\* proxmox_vm_destroy, whose rejection propagates.
destroyVM(connected, vmId, stopOk, destroyOk) ==
  IF ~connected THEN NotConnected
  ELSE [calls |-> <<Remote("proxmox_vm_stop", vmId, stopOk),
                    Remote("proxmox_vm_destroy", vmId, destroyOk)>>,
        res |-> IF destroyOk THEN "resolved" ELSE "rejected"]

\* A call of client.createVM; connected tells whether connect() has set
\* this.client.  A created environment gets the lowest free handle.
ClientCreateVM(connected, jobId, reply) ==
  LET r == createVM(connected, jobId, reply)
  IN /\ IF r.calls # <<>> /\ r.calls[1].ok
        THEN \E h \in Handles :
               /\ FreshHandle(h)
               /\ live' = live \cup {h}
               /\ last' = Outcome("createVM", IF r.res = "created" THEN h ELSE NoVm,
                                   r.res, r.calls)
        ELSE /\ live' = live
             /\ last' = Outcome("createVM", NoVm, r.res, r.calls)
     /\ UNCHANGED <<jobs, now, prov, cancels, ticks>>

\* A call of client.startVM.
ClientStartVM(connected, vmId, ok) ==
  LET r == startVM(connected, vmId, ok)
  IN /\ last' = Outcome("startVM", vmId, r.res, r.calls)
     /\ UNCHANGED <<jobs, now, prov, cancels, ticks, live>>

\* A call of client.destroyVM; the environment is gone when the destroy
\* request resolved.
ClientDestroyVM(connected, vmId, stopOk, destroyOk) ==
  LET r == destroyVM(connected, vmId, stopOk, destroyOk)
  IN /\ live' = Destroyed(vmId, r.res = "resolved")
     /\ last' = Outcome("destroyVM", vmId, r.res, r.calls)
     /\ UNCHANGED <<jobs, now, prov, cancels, ticks>>

\* The client on its own, called at any time with any handle, connected or
\* not, each request resolving or rejecting.
NextClient ==
  \/ AdvanceTime
  \/ \E c \in BOOLEAN, j \in JobIds, reply \in {"vm", "malformed", "error"} :
       ClientCreateVM(c, j, reply)
  \/ \E c \in BOOLEAN, h \in Handles, ok \in BOOLEAN : ClientStartVM(c, h, ok)
  \/ \E c \in BOOLEAN, h \in Handles, s \in BOOLEAN, d \in BOOLEAN :
       ClientDestroyVM(c, h, s, d)

SpecClient == Init /\ [][NextClient]_vars

\* Two jobs side by side with every operation that is addressed to one job:
\* provisioning with its failures, the three callbacks, cancel, and the
\* reconciliation tick.  One manifest and one body per route; progress
\* reports and heartbeats go to the first job; one tick at a time; the clock
\* makes one long step.
NextIsolation ==
  \/ LongSilence
  \/ /\ Len(jobs) < MaxJobs + 1
     /\ \E m \in Manifests :
          m.task = "t" /\ m.timeout = MinTimeout /\ m.lifecycle = "ephemeral" /\ SubmitJob(m)
  \/ \E j \in JobIds, h \in Handles : CreateVMOk(j, h)
  \/ \E j \in JobIds : CreateVMFail(j)
  \/ \E j \in JobIds : StartVMOk(j)
  \/ \E j \in JobIds : StartVMFail(j)
  \/ \E id \in JobIds, b \in CompletionBodies :
       b.status = "success" /\ b.error = NoValue /\ b.artifacts = NoValue
         /\ CallbackComplete(id, b)
  \/ \E b \in StatusBodies : b.output = "partial" /\ CallbackStatus(1, b)
  \/ CallbackHeartbeat(1)
  \/ \E id \in JobIds : CancelJob(id)
  \/ \E id \in JobIds, ok \in BOOLEAN : CancelDestroyReturn(id, ok)
  \/ TickFire(1)
  \/ \E k \in 1..MaxTicks, ok \in BOOLEAN : TimedOutDestroyReturn(k, ok)
  \/ \E k \in 1..MaxTicks, ok \in BOOLEAN : CleanupDestroyReturn(k, ok)

SpecIsolation == Init /\ [][NextIsolation]_vars

\* ================================================================ claims
Known == 1..Len(jobs)

\* C1: once a job's status is success, failed or timeout, no completion,
\* progress or heartbeat callback, no reconciliation step and no cancel
\* changes that job's status.
C1_StatusNeverRegresses ==
  [][\A j \in Known :
       (/\ jobs[j].status \in Terminal
        /\ last'.op \in {"complete", "status", "heartbeat", "tick", "cancel_job"})
       => jobs'[j].status = jobs[j].status]_vars

\* C2: the reconciliation loop writes timeout only to a job that is running
\* at the moment of the write; a job made terminal while the loop awaited
\* destroyVM keeps its status, error and completedAt.
C2_TimeoutOnlyFromRunning ==
  [][\A k \in 1..MaxTicks, ok \in BOOLEAN, j \in Known :
       TimedOutDestroyReturn(k, ok) =>
         /\ (jobs'[j].status = "timeout" /\ jobs[j].status # "timeout")
              => jobs[j].status = "running"
         /\ jobs[j].status \in Terminal
              => /\ jobs'[j].status = jobs[j].status
                 /\ jobs'[j].error = jobs[j].error
                 /\ jobs'[j].completedAt = jobs[j].completedAt]_vars

\* The edges of the job state machine (spec 4.4).  pending -> provisioning
\* is taken inside submit, before the job can be observed.
Edges ==
  {<<"pending", "provisioning">>, <<"provisioning", "running">>,
   <<"running", "success">>, <<"running", "failed">>, <<"running", "timeout">>,
   <<"pending", "failed">>, <<"provisioning", "failed">>}

\* C3: every change of a job's status, by any operation, follows an edge of
\* the state machine.
C3_StatusFollowsEdges ==
  [][\A j \in Known :
       jobs'[j].status # jobs[j].status
         => <<jobs[j].status, jobs'[j].status>> \in Edges]_vars

\* C4: cancel on a job that is already terminal (success, failed or
\* timeout) is rejected with "already completed", calls destroyVM zero
\* times and leaves the job record unchanged.
C4_CancelTerminalRejected ==
  [][\A id \in Known :
       (jobs[id].status \in Terminal /\ CancelJob(id))
         => /\ last'.res = "Job already completed"
            /\ last'.call = NoCall
            /\ jobs' = jobs]_vars

\* A step of a handler (the clock alone leaves `now` changed).
HandlerStep == now' = now

\* C5: cancel on a non-terminal job calls destroyVM exactly once for the
\* job's handle when it holds one, and not at all when it holds none;
\* whether that destroy resolves or rejects, cancel returns {cancelled} and
\* the job is failed with error "Cancelled by user" and completedAt set.
C5_CancelNonTerminal ==
  [][\A id \in JobIds :
       /\ (hasJob(jobs, id) /\ jobs[id].status \notin Terminal /\ CancelJob(id))
            => IF jobs[id].vmId # NoVm
               THEN /\ last'.call = <<"destroyVM", jobs[id].vmId>>
                    /\ cancels'[id] = [n |-> cancels[id].n + 1, h |-> jobs[id].vmId]
               ELSE /\ last'.call = NoCall
                    /\ last'.res = "cancelled"
                    /\ jobs'[id].status = "failed"
                    /\ jobs'[id].error = "Cancelled by user"
                    /\ jobs'[id].completedAt = now
       /\ \A ok \in BOOLEAN :
            CancelDestroyReturn(id, ok)
              => /\ last'.call = NoCall
                 /\ last'.res = "cancelled"
                 /\ cancels'[id].n = cancels[id].n - 1
                 /\ jobs'[id].status = "failed"
                 /\ jobs'[id].error = "Cancelled by user"
                 /\ jobs'[id].completedAt = now]_vars

\* C5 witness: a cancel of a job holding a handle has returned although its
\* destroyVM was rejected (the environment is still there).
C5_Witness ==
  /\ last = Outcome("cancel_job", 1, "cancelled", NoCall)
  /\ hasJob(jobs, 1)
  /\ jobs[1].vmId # NoVm /\ jobs[1].vmId \in live
  /\ jobs[1].status = "failed" /\ jobs[1].error = "Cancelled by user"

\* C6: a rejected createVM or startVM makes the job failed with completedAt
\* set and an error naming the provisioning failure; createVM is issued
\* only by the submit that creates the job (never again), and submit has
\* already answered with the job id.
C6_ProvisioningFailure ==
  [][/\ \A j \in JobIds :
          (CreateVMFail(j) \/ StartVMFail(j))
            => /\ jobs'[j].status = "failed"
               /\ jobs'[j].error = "Provisioning failed"
               /\ jobs'[j].completedAt = now
               /\ prov'[j].pc = "done"
               /\ last'.call = NoCall
     /\ (HandlerStep /\ last'.call[1] = "createVM")
          => /\ ~hasJob(jobs, last'.call[2])
             /\ hasJob(jobs', last'.call[2])
             /\ last'.op = "submit_job" /\ last'.res = "job_id"
     /\ \A j \in Known : prov[j].pc # "create" => prov'[j].pc # "create"]_vars

\* C6 witness: startVM was rejected after createVM had succeeded.
C6_Witness ==
  /\ last = Outcome("provision", 1, "failed", NoCall)
  /\ hasJob(jobs, 1)
  /\ jobs[1].status = "failed" /\ jobs[1].error = "Provisioning failed"
  /\ jobs[1].completedAt # NoTime
  /\ 1 \in live

\* C7: with a provisioner that succeeds and no cancel or callback, a
\* submitted job is provisioning and eventually running; on entering
\* running it has startedAt set and the handle createVM returned.
C7_ProvisioningReachesRunning ==
  /\ \A j \in 1..MaxJobs :
       [](hasJob(jobs, j) /\ jobs[j].status = "provisioning"
            => <>(hasJob(jobs, j) /\ jobs[j].status = "running"))
  /\ [][/\ \A m \in Manifests :
             SubmitJob(m) => jobs'[Len(jobs')].status = "provisioning"
        /\ \A j \in Known :
             (jobs'[j].status = "running" /\ jobs[j].status # "running")
               => /\ jobs[j].status = "provisioning"
                  /\ prov[j].pc = "start"
                  /\ jobs'[j].startedAt = now
                  /\ jobs'[j].vmId # NoVm
                  /\ jobs'[j].vmId = prov[j].vm]_vars

\* C7 witness: the job has entered running with its handle and startedAt.
C7_Witness ==
  /\ last = Outcome("provision", 1, "running", NoCall)
  /\ hasJob(jobs, 1)
  /\ jobs[1].status = "running"
  /\ jobs[1].startedAt # NoTime
  /\ jobs[1].vmId \in live

\* C8: submit returns the job id while createVM is still awaited: the job
\* is in the store at that moment, and while a job's provisioning calls are
\* in flight the other handlers (callbacks, queries, cancel, submit) can
\* run and answer.
C8_SubmitDoesNotWait ==
  /\ (last.op = "submit_job" /\ last.res = "job_id")
       => /\ hasJob(jobs, last.id)
          /\ jobs[last.id].status = "provisioning"
          /\ prov[last.id].pc = "create"
          /\ last.call = <<"createVM", last.id>>
  /\ \A j \in Known :
       prov[j].pc # "done"
         => /\ \A b \in CompletionBodies :
                 CallbackPayloadSchema(b)
                   => ENABLED (CallbackComplete(j, b) /\ last'.res = "200")
            /\ \A b \in StatusBodies :
                 StatusUpdateSchema(b)
                   => ENABLED (CallbackStatus(j, b) /\ last'.res = "200")
            /\ ENABLED (CallbackHeartbeat(j) /\ last'.res = "200")
            /\ ENABLED (GetJobStatus(j) /\ last'.res = "snapshot")
            /\ ENABLED (GetJobResult(j) /\ last'.res # "Job not found")
            /\ ENABLED (CancelJob(j) /\ last'.res # "Job not found")
            /\ \A m \in Manifests :
                 JobManifestSchema(m)
                   => ENABLED (SubmitJob(m) /\ last'.res = "job_id")

\* C8 witness: a completion report was answered 200 while the job's
\* startVM call was still in flight.
C8_Witness ==
  /\ last = Outcome("complete", 1, "200", NoCall)
  /\ hasJob(jobs, 1)
  /\ prov[1].pc = "start"

\* C9: a completion report with a valid body for a known job answers 200,
\* sets the status the payload names, records the payload's output, error
\* and artifacts, and sets completedAt.
C9_CompletionRecorded ==
  [][(HandlerStep /\ last'.op = "complete")
       => \A id \in Known, b \in CompletionBodies :
            (CallbackPayloadSchema(b) /\ CallbackComplete(id, b))
              => /\ last'.res = "200"
                 /\ jobs'[id].status = b.status
                 /\ jobs'[id].output = b.output
                 /\ jobs'[id].error = b.error
                 /\ jobs'[id].artifacts = b.artifacts
                 /\ jobs'[id].completedAt = now]_vars

\* C9 witness: a failed report with an error text has been recorded.
C9_Witness ==
  /\ last = Outcome("complete", 1, "200", NoCall)
  /\ hasJob(jobs, 1)
  /\ jobs[1].status = "failed" /\ jobs[1].error = "err" /\ jobs[1].output = "out"
  /\ jobs[1].completedAt # NoTime

\* C10: delivering the same completion report a second time, right after
\* the first, leaves the job with the same status, output, error, artifacts
\* and completedAt.
C10_CompletionIdempotent ==
  [][\A id \in Known, b \in CompletionBodies :
       (/\ CallbackPayloadSchema(b)
        /\ last = Outcome("complete", id, "200", NoCall)
        /\ jobs[id].status = b.status
        /\ jobs[id].output = b.output
        /\ jobs[id].error = b.error
        /\ jobs[id].artifacts = b.artifacts
        /\ CallbackComplete(id, b))
         => /\ jobs'[id].status = jobs[id].status
            /\ jobs'[id].output = jobs[id].output
            /\ jobs'[id].error = jobs[id].error
            /\ jobs'[id].artifacts = jobs[id].artifacts
            /\ jobs'[id].completedAt = jobs[id].completedAt]_vars

\* The other jobs' records and everything outside the job table.
Untouched == UNCHANGED <<jobs, prov, cancels, ticks, live>>

\* C11: a progress report (valid body) or a heartbeat for a job whose
\* status is success, failed or timeout is answered 200 and leaves the
\* job's status as it was.
C11_ReportOnTerminalJob ==
  [][(HandlerStep /\ last'.op \in {"status", "heartbeat"})
       => \A id \in Known :
            jobs[id].status \in Terminal
              => /\ \A b \in StatusBodies :
                      (StatusUpdateSchema(b) /\ CallbackStatus(id, b))
                        => /\ last'.res = "200"
                           /\ jobs'[id].status = jobs[id].status
                 /\ CallbackHeartbeat(id)
                      => /\ last'.res = "200"
                         /\ jobs'[id].status = jobs[id].status]_vars

\* C11 witness: a progress report was answered 200 for a timed-out job,
\* which is still timed out.
C11_Witness ==
  /\ last = Outcome("status", 1, "200", NoCall)
  /\ hasJob(jobs, 1)
  /\ jobs[1].status = "timeout"
  /\ jobs[1].progress = "step"
  /\ jobs[1].lastHeartbeat >= jobs[1].completedAt

C13_InvalidBodyCallback ==
  [][(HandlerStep /\ last'.op \in {"complete", "status"})
       => \A id \in Known :
            /\ \A b \in CompletionBodies :
                 (~CallbackPayloadSchema(b) /\ CallbackComplete(id, b))
                   => (last'.res = "400" /\ Untouched)
            /\ \A b \in StatusBodies :
                 (~StatusUpdateSchema(b) /\ CallbackStatus(id, b))
                   => (last'.res = "400" /\ Untouched)]_vars

\* C13 witness: a progress report without the progress field was answered
\* 400 for a running job.
C13_Witness ==
  /\ last = Outcome("status", 1, "400", NoCall)
  /\ hasJob(jobs, 1)
  /\ jobs[1].status = "running"
  /\ jobs[1].progress = NoValue

\* Updates the handlers pass to updateJob.
SomeUpdates ==
  {CancelUpdate(now), TimeoutUpdate(now), ProvisionFailedUpdate(now),
   [vmId |-> NoVm], [lastHeartbeat |-> now]}

\* C14: for every id that is not in the store, getJob returns undefined,
\* updateJob and deleteJob return false and leave the store as it is, and
\* cancel_job, get_job_status and get_job_result answer "Job not found"
\* without changing the store or calling the provisioner.
C14_UnknownIdNotFound ==
  [][\A id \in JobIds \ Known :
       /\ getJob(jobs, id) = NoValue
       /\ \A u \in SomeUpdates :
            ~updateJobReturns(jobs, id) /\ updateJob(jobs, id, u) = jobs
       /\ ~deleteJobReturns(jobs, id) /\ deleteJob(jobs, id) = jobs
       /\ CancelJob(id)
            => (last'.res = "Job not found" /\ last'.call = NoCall /\ Untouched)
       /\ GetJobStatus(id)
            => (last'.res = "Job not found" /\ last'.call = NoCall /\ Untouched)
       /\ GetJobResult(id)
            => (last'.res = "Job not found" /\ last'.call = NoCall /\ Untouched)]_vars

\* C14 witness: cancel_job on an id the store never issued answered
\* "Job not found" while the store holds a running job with its environment.
C14_Witness ==
  /\ last = Outcome("cancel_job", MaxJobs + 1, "Job not found", NoCall)
  /\ hasJob(jobs, 1)
  /\ jobs[1].status = "running"
  /\ jobs[1].vmId \in live
  /\ cancels[MaxJobs + 1] = NoCancel

\* C15: submit_job with a manifest that fails validation answers
\* "Invalid manifest", creates no job and calls the provisioner not at all;
\* a job is only ever created from a manifest that passes validation.
C15_InvalidManifestRejected ==
  [][(HandlerStep /\ last'.op = "submit_job")
       => /\ \A m \in Manifests :
               SubmitInvalid(m)
                 => (last'.res = "Invalid manifest" /\ last'.call = NoCall /\ Untouched)
          /\ last'.res = "Invalid manifest" => (last'.call = NoCall /\ Untouched)
          /\ Len(jobs') > Len(jobs)
               => /\ JobManifestSchema(jobs'[Len(jobs')].manifest)
                  /\ last'.res = "job_id"]_vars

\* C15 witness: a submit was answered "Invalid manifest" and the store is
\* still empty, with no provisioning in flight and no environment.
C15_Witness ==
  /\ last = Outcome("submit_job", 0, "Invalid manifest", NoCall)
  /\ jobs = <<>>
  /\ \A j \in JobIds : prov[j] = ProvDone
  /\ live = {}

\* C16: get_job_result on a known job answers with the result exactly when
\* the job's status is success or failed; for pending, provisioning,
\* running and timeout it answers "Job not complete" (never "Job not
\* found"); it changes nothing.
C16_ResultOnlyWhenComplete ==
  [][(HandlerStep /\ last'.op = "get_job_result")
       => \A id \in Known :
            GetJobResult(id)
              => /\ Untouched
                 /\ last'.call = NoCall
                 /\ last'.res = "result" <=> jobs[id].status \in {"success", "failed"}
                 /\ jobs[id].status \in {"pending", "provisioning", "running", "timeout"}
                      => last'.res = "Job not complete"
                 /\ last'.res # "Job not found"]_vars

\* C16 witness: get_job_result on a timed-out job answered "Job not complete".
C16_Witness ==
  /\ last = Outcome("get_job_result", 1, "Job not complete", NoCall)
  /\ hasJob(jobs, 1)
  /\ jobs[1].status = "timeout"
  /\ jobs[1].completedAt # NoTime

C18_CleanupClearsHandle ==
  /\ \A j \in 1..MaxJobs :
       [](hasJob(jobs, j) /\ CleanupEligible(jobs[j])
            => <>(hasJob(jobs, j) /\ jobs[j].vmId = NoVm))
  /\ [][/\ \A k \in 1..MaxTicks :
             (ticks[k].phase # "cleanup" /\ ticks'[k] # ticks[k]
               /\ ticks'[k].phase # "timeout")
               => \A j \in Known :
                    CleanupEligible(jobs'[j])
                      => /\ ticks'[k].phase = "cleanup"
                         /\ \E i \in 1..Len(ticks'[k].queue) : ticks'[k].queue[i] = j
                         /\ last'.call = <<"destroyVM", jobs'[Head(ticks'[k].queue)].vmId>>
        /\ \A k \in 1..MaxTicks, ok \in BOOLEAN :
             CleanupDestroyReturn(k, ok)
               => LET j == Head(ticks[k].queue)
                  IN IF ok THEN jobs'[j].vmId = NoVm
                     ELSE /\ jobs'[j].vmId = jobs[j].vmId
                          /\ live' = live]_vars

\* C18 witness: a cleanup destroyVM was rejected and the terminal job still
\* holds its handle, its environment still being there.
C18_Witness ==
  /\ last.op = "tick" /\ last.id = 1 /\ last.res = "kept"
  /\ hasJob(jobs, 1)
  /\ CleanupEligible(jobs[1])
  /\ jobs[1].vmId \in live

\* Every job has ended, none is persistent, and no provisioning call is
\* still in flight.
AllJobsEnded ==
  /\ jobs # <<>>
  /\ \A j \in Known :
       /\ jobs[j].status \in Terminal
       /\ jobs[j].manifest.lifecycle # "persistent"
       /\ prov[j].pc = "done"

\* C19: once the jobs have ended (by a completion report, a provisioning
\* failure, a cancel or a timeout) and none is persistent, every
\* environment createVM created for them is eventually destroyed, given
\* fair ticks and a destroy that eventually resolves.
C19_EnvironmentsReclaimed ==
  \A h \in Handles :
    [](AllJobsEnded /\ h \in live => <>(h \notin live \/ ~AllJobsEnded))

\* C20: a running job whose last heartbeat is older than the heartbeat
\* threshold, and that sends no further heartbeat, is eventually brought to
\* a terminal status by the reconciliation loop, also when its manifest has
\* no timeout or the timeout has not passed.
C20_StaleJobReconciled ==
  \A j \in 1..MaxJobs :
    [](hasJob(jobs, j) /\ IsStale(jobs[j], heartbeatThresholdSeconds, now)
         => <>(/\ hasJob(jobs, j)
               /\ \/ jobs[j].status \in Terminal
                  \/ ~IsStale(jobs[j], heartbeatThresholdSeconds, now)))

\* C21: at any time at most one reconciliation tick is in progress (a tick
\* that still awaits destroyVM keeps the next one from starting).
C21_TicksNeverOverlap ==
  \A k1, k2 \in 1..MaxTicks :
    (ticks[k1].phase # "idle" /\ ticks[k2].phase # "idle") => k1 = k2

\* The ids of a sequence of job ids.
Range(q) == {q[i] : i \in 1..Len(q)}

\* C22: a rejected destroyVM does not end the tick: after the timed-out
\* pass' destroyVM settles (either way) every other job of its list is
\* marked timeout or is the one whose destroyVM the pass now awaits or
\* still has to reach, and when the list is done the cleanup pass starts in
\* the same callback; after the cleanup pass' destroyVM settles (either
\* way) every other job of its list has no handle left or is still ahead
\* in the list; and the interval keeps firing afterwards.
C22_DestroyFailureDoesNotAbort ==
  /\ []<>(\E k \in 1..MaxTicks : ticks[k].phase = "idle")
  /\ [][/\ \A k \in 1..MaxTicks, ok \in BOOLEAN :
             TimedOutDestroyReturn(k, ok)
               => /\ \A j \in Range(Tail(ticks[k].queue)) :
                       \/ jobs'[j].status = "timeout"
                       \/ /\ ticks'[k].phase = "timeout"
                          /\ j \in Range(ticks'[k].queue)
                  /\ ticks'[k].phase # "timeout"
                       => \A j \in Known :
                            CleanupEligible(jobs'[j])
                              => /\ ticks'[k].phase = "cleanup"
                                 /\ j \in Range(ticks'[k].queue)
        /\ \A k \in 1..MaxTicks, ok \in BOOLEAN :
             CleanupDestroyReturn(k, ok)
               => \A j \in Range(Tail(ticks[k].queue)) :
                    \/ jobs'[j].vmId = NoVm
                    \/ /\ ticks'[k].phase = "cleanup"
                       /\ j \in Range(ticks'[k].queue)
                       /\ last'.call[1] = "destroyVM"]_vars

\* C22 witness: the destroyVM for job 1 was rejected (its environment is
\* still there), job 1 is marked timeout all the same and the same
\* callback now awaits the destroyVM of job 2.
C22_Witness ==
  /\ Len(jobs) = 2
  /\ last.op = "tick" /\ last.id = 1 /\ last.res = "timeout"
  /\ last.call = <<"destroyVM", jobs[2].vmId>>
  /\ jobs[1].status = "timeout" /\ jobs[1].vmId \in live
  /\ jobs[2].status = "running" /\ jobs[2].vmId # jobs[1].vmId
  /\ \E k \in 1..MaxTicks : ticks[k].phase = "timeout" /\ ticks[k].queue = <<2>>

\* C23: the cleanup pass awaits destroyVM only for a terminal job that is
\* not persistent and held the handle when the call was made; it clears
\* the handle of that job only; the handle of a terminal persistent job is
\* never cleared.
C23_PersistentNotCleaned ==
  [][/\ \A k \in 1..MaxTicks :
          ticks'[k].phase = "cleanup"
            => LET j == Head(ticks'[k].queue)
               IN /\ jobs'[j].manifest.lifecycle # "persistent"
                  /\ jobs'[j].status \in Terminal
                  /\ ticks'[k] # ticks[k]
                       => (ticks'[k].h = jobs'[j].vmId /\ ticks'[k].h # NoVm)
     /\ \A k \in 1..MaxTicks, ok \in BOOLEAN :
          CleanupDestroyReturn(k, ok)
            => \A j \in Known :
                 jobs'[j].vmId # jobs[j].vmId
                   => /\ j = Head(ticks[k].queue) /\ ok
                      /\ jobs[j].manifest.lifecycle # "persistent"
                      /\ jobs[j].status \in Terminal
     /\ \A j \in Known :
          (/\ jobs[j].manifest.lifecycle = "persistent"
           /\ jobs[j].status \in Terminal
           /\ jobs[j].vmId # NoVm)
            => jobs'[j].vmId = jobs[j].vmId]_vars

\* C23 witness: a tick has fired and ended without a destroyVM call while
\* a persistent job is terminal and holds the handle of its environment.
C23_Witness ==
  /\ last = Outcome("tick", 0, "fired", NoCall)
  /\ \A k \in 1..MaxTicks : ticks[k].phase = "idle"
  /\ hasJob(jobs, 1)
  /\ jobs[1].manifest.lifecycle = "persistent"
  /\ jobs[1].status = "success"
  /\ jobs[1].vmId \in live

\* C24: after a destroyVM for a job's handle has resolved, whether cancel,
\* the timed-out pass or the cleanup pass issued it, the job no longer
\* holds that handle.
C24_HandleClearedOnDestroy ==
  [][/\ \A id \in Known :
          CancelDestroyReturn(id, TRUE) => jobs'[id].vmId # cancels[id].h
     /\ \A k \in 1..MaxTicks :
          TimedOutDestroyReturn(k, TRUE) => jobs'[Head(ticks[k].queue)].vmId # ticks[k].h
     /\ \A k \in 1..MaxTicks :
          CleanupDestroyReturn(k, TRUE) => jobs'[Head(ticks[k].queue)].vmId # ticks[k].h]_vars

\* C25: no two jobs hold the same handle, and a destroyVM awaited on behalf
\* of one job (by a tick or by cancel) is never for a handle another job
\* holds; the provisioner issues only handles no live environment uses.
C25_OneJobOneEnvironment ==
  /\ \A i, j \in Known :
       (i # j /\ jobs[i].vmId # NoVm) => jobs[i].vmId # jobs[j].vmId
  /\ \A k \in 1..MaxTicks :
       ticks[k].phase # "idle"
         => \A j \in Known \ {Head(ticks[k].queue)} : jobs[j].vmId # ticks[k].h
  /\ \A id \in JobIds :
       cancels[id].n > 0
         => \A j \in Known \ {id} : jobs[j].vmId # cancels[id].h

\* C26: once a job's createdAt, startedAt or completedAt has a value, no
\* later operation changes it.
C26_TimestampsSetOnce ==
  [][\A j \in Known :
       /\ jobs[j].createdAt # NoTime => jobs'[j].createdAt = jobs[j].createdAt
       /\ jobs[j].startedAt # NoTime => jobs'[j].startedAt = jobs[j].startedAt
       /\ jobs[j].completedAt # NoTime => jobs'[j].completedAt = jobs[j].completedAt]_vars

\* C27: a job's startedAt is set exactly if the job has had status running
\* at some point.  Stated step by step: a new job has no startedAt and is
\* not running; after every step startedAt is set exactly if it was set
\* before or the job is running now; hence in every state startedAt is set
\* iff some state so far had the job running.
C27_StartedAtIffRan ==
  [][\A j \in 1..Len(jobs') :
       IF j \in Known
       THEN (jobs'[j].startedAt # NoTime)
              <=> (jobs[j].startedAt # NoTime \/ jobs'[j].status = "running")
       ELSE jobs'[j].startedAt = NoTime /\ jobs'[j].status # "running"]_vars

\* C27 witness: a job that ran and was then cancelled has its startedAt,
\* next to a completedAt.
C27_Witness ==
  /\ hasJob(jobs, 1)
  /\ jobs[1].status = "failed" /\ jobs[1].error = "Cancelled by user"
  /\ jobs[1].startedAt # NoTime
  /\ jobs[1].completedAt >= jobs[1].startedAt
  /\ last = Outcome("cancel_job", 1, "cancelled", NoCall)

\* C28: a job that has never been running (its startedAt is unset, see
\* C27) has output, error, artifacts and progress unset, whatever reports
\* arrived for it while it was pending or provisioning.
C28_NoResultBeforeRunning ==
  \A j \in Known :
    jobs[j].startedAt = NoTime
      => /\ jobs[j].output = NoValue
         /\ jobs[j].error = NoValue
         /\ jobs[j].artifacts = NoValue
         /\ jobs[j].progress = NoValue

\* C29: a job's id, manifest and createdAt stay what they were at creation
\* through every operation (callbacks, cancel, provisioning, reconciliation).
C29_IdentityImmutable ==
  [][\A j \in Known :
       /\ jobs'[j].id = jobs[j].id
       /\ jobs'[j].manifest = jobs[j].manifest
       /\ jobs'[j].createdAt = jobs[j].createdAt]_vars

\* C29 witness: a job created at the first instant has since run, taken a
\* progress report and been cancelled at a later instant; its id and
\* createdAt are those of its creation.
C29_Witness ==
  /\ hasJob(jobs, 1)
  /\ jobs[1].id = 1 /\ jobs[1].createdAt = 1
  /\ jobs[1].status = "failed" /\ jobs[1].error = "Cancelled by user"
  /\ jobs[1].progress = "step"
  /\ jobs[1].startedAt # NoTime
  /\ jobs[1].completedAt > jobs[1].createdAt

\* C30: createJob on any store and any manifest (the store does not
\* validate) returns an id no job of the store has; getJob of that id then
\* gives a job that is pending, carries exactly that manifest and
\* createdAt = now, and has no handle, startedAt, completedAt, output,
\* error, artifacts or progress; every other job is as it was.
C30_CreateJob ==
  \A m \in Manifests :
    LET created == createJob(jobs, m, now)
        id == Len(created)
        job == getJob(created, id)
    IN /\ ~hasJob(jobs, id) /\ hasJob(created, id)
       /\ \A j \in Known : jobs[j].id # id /\ created[j] = jobs[j]
       /\ Len(created) = Len(jobs) + 1
       /\ job.id = id
       /\ job.status = "pending"
       /\ job.manifest = m
       /\ job.createdAt = now
       /\ job.vmId = NoVm
       /\ job.startedAt = NoTime /\ job.completedAt = NoTime
       /\ job.output = NoValue /\ job.error = NoValue
       /\ job.artifacts = NoValue /\ job.progress = NoValue
       /\ job.lastHeartbeat = NoTime

\* C30 witness: submit has just created a job at a later instant from a
\* persistent manifest with a timeout; the store holds it under the
\* returned id with that manifest and no handle or result.
C30_Witness ==
  /\ last.op = "submit_job" /\ last.res = "job_id"
  /\ hasJob(jobs, last.id)
  /\ jobs[last.id].id = last.id
  /\ jobs[last.id].manifest =
       [task |-> "t", agentType |-> "script", timeout |-> MinTimeout, lifecycle |-> "persistent"]
  /\ jobs[last.id].createdAt = now /\ now > 1
  /\ jobs[last.id].vmId = NoVm /\ jobs[last.id].startedAt = NoTime
  /\ jobs[last.id].output = NoValue

\* C31: getTimedOutJobs(now) returns a job exactly when it is running, has
\* a startedAt and a timeout, and now - startedAt is strictly greater than
\* the timeout; each such job is returned once; and a tick whose query finds
\* nothing (and that has nothing to clean) leaves the store as it was.
C31_TimedOutQuery ==
  /\ [](\A t \in {now} \cup 1..(MaxTime + 1) :
         LET r == getTimedOutJobs(jobs, t)
         IN /\ \A j \in Known :
                 j \in Range(r) <=>
                   /\ jobs[j].status = "running"
                   /\ jobs[j].startedAt # NoTime
                   /\ jobs[j].manifest.timeout # NoTimeout
                   /\ t - jobs[j].startedAt > jobs[j].manifest.timeout
            /\ Range(r) \subseteq Known
            /\ Cardinality(Range(r)) = Len(r))
  /\ [][(\E k \in 1..MaxTicks : TickFire(k))
          /\ getTimedOutJobs(jobs, now) = <<>> /\ completedJobs(jobs) = <<>>
        => jobs' = jobs]_vars

\* C31 witness: a tick has just run the query on a running job whose elapsed
\* time equals its timeout exactly, and the job was not returned.
C31_Witness ==
  /\ last.op = "tick" /\ last.res = "fired" /\ last.call = NoCall
  /\ \E j \in Known :
       /\ jobs[j].status = "running"
       /\ jobs[j].startedAt # NoTime
       /\ jobs[j].manifest.timeout # NoTimeout
       /\ now - jobs[j].startedAt = jobs[j].manifest.timeout
       /\ getTimedOutJobs(jobs, now) = <<>>

\* C32: getStaleJobs(threshold, now) returns a job exactly when it is
\* running, has a lastHeartbeat, and now - lastHeartbeat is strictly greater
\* than the threshold; a running job that never reported is not returned.
C32_StaleQuery ==
  \A th \in {MinTimeout, heartbeatThresholdSeconds} :
    \A t \in {now} \cup 1..(MaxTime + 1) :
      LET r == getStaleJobs(jobs, th, t)
      IN /\ \A j \in Known :
              j \in Range(r) <=>
                /\ jobs[j].status = "running"
                /\ jobs[j].lastHeartbeat # NoTime
                /\ t - jobs[j].lastHeartbeat > th
         /\ \A j \in Known :
              jobs[j].status = "running" /\ jobs[j].lastHeartbeat = NoTime
                => j \notin Range(r)
         /\ Range(r) \subseteq Known
         /\ Cardinality(Range(r)) = Len(r)

\* C32 witness: the configured threshold has passed since one running job's
\* last heartbeat, so the query returns it.
C32_Witness ==
  \E j \in Known :
    /\ jobs[j].status = "running"
    /\ jobs[j].lastHeartbeat # NoTime
    /\ now - jobs[j].lastHeartbeat > heartbeatThresholdSeconds
    /\ getStaleJobs(jobs, heartbeatThresholdSeconds, now) = <<j>>

\* C32 second case: a running job that never reported has been silent for
\* longer than the threshold and is still not returned.
C32_NeverReported ==
  \E j \in Known :
    /\ jobs[j].status = "running"
    /\ jobs[j].lastHeartbeat = NoTime
    /\ now - jobs[j].startedAt > heartbeatThresholdSeconds
    /\ getStaleJobs(jobs, heartbeatThresholdSeconds, now) = <<>>

\* C33: a valid progress report for a known job sets progress to the reported
\* value, sets output to the reported output when the body carries one and
\* leaves it unchanged when it carries none, sets lastHeartbeat to now, and
\* leaves every other field of the job unchanged.
C33_ProgressReportEffect ==
  [][\A id \in Known : \A b \in StatusBodies :
       StatusUpdateSchema(b) /\ CallbackStatus(id, b)
         => jobs'[id] = [jobs[id] EXCEPT !.progress = b.progress,
                                         !.output = IF b.output # NoValue THEN b.output ELSE @,
                                         !.lastHeartbeat = now]]_vars

\* C33, the part that holds: the same statement with an empty-string output
\* counted as no output.
C33_NonEmptyOutput ==
  [][\A id \in Known : \A b \in StatusBodies :
       StatusUpdateSchema(b) /\ CallbackStatus(id, b)
         => jobs'[id] = [jobs[id] EXCEPT !.progress = b.progress,
                                         !.output = IF b.output \notin {NoValue, ""}
                                                    THEN b.output ELSE @,
                                         !.lastHeartbeat = now]]_vars

\* C34: a heartbeat for a known job sets that job's lastHeartbeat to now and
\* changes nothing else: the job's other fields, every other job, and the
\* rest of the server's state stay as they were.
C34_HeartbeatEffect ==
  [][\A id \in Known :
       last'.op = "heartbeat" /\ CallbackHeartbeat(id)
         => /\ jobs' = [jobs EXCEPT ![id].lastHeartbeat = now]
            /\ UNCHANGED <<now, prov, cancels, ticks, live>>]_vars

\* C34 witness: a heartbeat was accepted for a job that already carries a
\* progress text and an output, next to a second job.
C34_Witness ==
  /\ last.op = "heartbeat" /\ last.res = "200"
  /\ Len(jobs) = MaxJobs + 1
  /\ jobs[last.id].lastHeartbeat = now
  /\ jobs[last.id].progress # NoValue
  /\ jobs[last.id].output # NoValue

\* The jobs a step changes.
Changed == {B \in Known : jobs'[B] # jobs[B]}

\* C36: an operation addressed to job A leaves every field of every other
\* job unchanged: whenever a step changes a job B, the step is a handler
\* addressed to B itself, or a reconciliation step working through a list
\* that holds B, in which B only gets its own timeout update or its own
\* handle cleared.
C36_OtherJobsUntouched ==
  [][\A B \in Changed :
       \/ \E h \in Handles : CreateVMOk(B, h)
       \/ CreateVMFail(B) \/ StartVMOk(B) \/ StartVMFail(B)
       \/ \E b \in CompletionBodies : CallbackComplete(B, b)
       \/ \E b \in StatusBodies : CallbackStatus(B, b)
       \/ CallbackHeartbeat(B)
       \/ CancelJob(B)
       \/ \E ok \in BOOLEAN : CancelDestroyReturn(B, ok)
       \/ \E k \in 1..MaxTicks :
            \/ /\ TickFire(k)
               /\ B \in Range(getTimedOutJobs(jobs, now))
               /\ jobs'[B] = updateJob(jobs, B, TimeoutUpdate(now))[B]
            \/ /\ \E ok \in BOOLEAN : TimedOutDestroyReturn(k, ok)
               /\ B \in Range(ticks[k].queue)
               /\ jobs'[B] = updateJob(jobs, B, TimeoutUpdate(now))[B]
            \/ /\ \E ok \in BOOLEAN : CleanupDestroyReturn(k, ok)
               /\ B = Head(ticks[k].queue)
               /\ jobs'[B] = [jobs[B] EXCEPT !.vmId = NoVm]]_vars

\* C36 witness: a completion report has just ended one job while the other
\* job is running with its own handle.
C36_Witness ==
  /\ Len(jobs) = MaxJobs + 1
  /\ last.op = "complete" /\ last.res = "200"
  /\ \E B \in Known \ {last.id} :
       /\ jobs[B].status = "running"
       /\ jobs[B].vmId # NoVm
       /\ jobs[B].completedAt = NoTime
       /\ jobs[B].output = NoValue

\* C36 second case: the timed-out pass has marked one job timeout while the
\* other job, outside its list, is left as it was.
C36_TimeoutNextToOther ==
  /\ Len(jobs) = MaxJobs + 1
  /\ last.op = "tick" /\ last.res = "timeout"
  /\ jobs[last.id].status = "timeout"
  /\ \E B \in Known \ {last.id} : jobs[B].status \in {"provisioning", "success"}

C37_ClientDestroy ==
  [][/\ \A h \in Handles : \A s \in BOOLEAN : \A d \in BOOLEAN :
          /\ ClientDestroyVM(TRUE, h, s, d)
               => /\ Len(last'.call) = 2
                  /\ last'.call[1] = [tool |-> "proxmox_vm_stop", arg |-> h, ok |-> s]
                  /\ last'.call[2] = [tool |-> "proxmox_vm_destroy", arg |-> h, ok |-> d]
                  /\ last'.res = IF d THEN "resolved" ELSE "rejected"
                  /\ live' = IF d THEN live \ {h} ELSE live
          /\ ClientDestroyVM(FALSE, h, s, d)
               => /\ last'.res = "Client not connected"
                  /\ last'.call = <<>>
                  /\ live' = live
     /\ \A h \in Handles : \A ok \in BOOLEAN :
          ClientStartVM(FALSE, h, ok)
            => last'.res = "Client not connected" /\ last'.call = <<>> /\ live' = live
     /\ \A j \in JobIds : \A reply \in {"vm", "malformed", "error"} :
          ClientCreateVM(FALSE, j, reply)
            => last'.res = "Client not connected" /\ last'.call = <<>> /\ live' = live]_vars

\* C37 witness: destroyVM has just resolved although its stop request was
\* rejected; the environment is gone.
C37_Witness ==
  /\ last.op = "destroyVM" /\ last.res = "resolved"
  /\ Len(last.call) = 2
  /\ ~last.call[1].ok /\ last.call[2].ok
  /\ last.id \notin live

\* C37 second case: destroyVM on a client that is not connected, with the
\* environment still there.
C37_NotConnected ==
  /\ last.op = "destroyVM" /\ last.res = "Client not connected"
  /\ last.call = <<>>
  /\ last.id \in live

\* C38: once a cancel or a completion report has made a job terminal while
\* its createVM/startVM is in flight, the provisioning continuation does not
\* set it running, attach a handle or set startedAt, and a provisioning
\* failure does not overwrite its status, error or completedAt.
C38_TerminalSurvivesProvisioning ==
  [][\A j \in Known :
       jobs[j].status \in Terminal /\ prov[j].pc # ProvDone.pc
         => /\ StartVMOk(j)
                 => /\ jobs'[j].status = jobs[j].status
                    /\ jobs'[j].vmId = jobs[j].vmId
                    /\ jobs'[j].startedAt = jobs[j].startedAt
            /\ CreateVMFail(j) \/ StartVMFail(j)
                 => /\ jobs'[j].status = jobs[j].status
                    /\ jobs'[j].error = jobs[j].error
                    /\ jobs'[j].completedAt = jobs[j].completedAt]_vars

\* C39: the pending->provisioning transition happens inside submit before
\* it returns: in no state that a later operation can see is a stored job
\* pending, and listJobs with filter pending is empty.
C39_NeverPending ==
  /\ \A j \in Known : jobs[j].status # "pending"
  /\ listJobs(jobs, "pending") = <<>>

\* C39 witness: get_job_status has just read a job whose createVM has not
\* settled yet, and the job is provisioning.
C39_Witness ==
  /\ last.op = "get_job_status" /\ last.res = "snapshot"
  /\ prov[last.id].pc = "create"
  /\ jobs[last.id].status = "provisioning"
  /\ listJobs(jobs, "provisioning") = <<jobs[last.id]>>

\* C40: in every reachable state a job has completedAt set if and only if
\* its status is terminal (success, failed or timeout).
C40_CompletedAtIffTerminal ==
  \A j \in Known : jobs[j].completedAt # NoTime <=> jobs[j].status \in Terminal

\* C40, the half that holds: a terminal job always has completedAt set.
C40_TerminalHasCompletedAt ==
  \A j \in Known : jobs[j].status \in Terminal => jobs[j].completedAt # NoTime

====
